---- MODULE Spec2Model ----
(***************************************************************************)
(* Model of admin_users9.py: the users admin panel.                        *)
(*                                                                         *)
(* Text values are sequences of one-character strings, so that splitting,  *)
(* float parsing and SQL LIKE matching are computed character by           *)
(* character.  SQL NULL / Python None of a text value is the sentinel      *)
(* NULL, a sequence no text can equal.                                     *)
(***************************************************************************)
EXTENDS Integers, Sequences, FiniteSets, TLC

VARIABLES
    loc,        \* argument handed to parse_location_data
    parsed,     \* what parse_location_data returned for loc
    users,      \* the users table: id -> row
    now,        \* the database clock, in ticks
    session,    \* TRUE iff 'admin_logged_in' is in the session
    entitled,   \* history: a correct login happened and no logout since
    resp,       \* the response of the last get_users request
    walk,       \* the rows a client got paging 1, 2, ... through one listing
    reqs        \* in-flight mutation requests: worker -> request state

vars == <<loc, parsed, users, now, session, entitled, resp, walk, reqs>>

----------------------------------------------------------------------------
(* Bounds of the model. *)

MaxTokens == 6      \* tokens concatenated into a raw location string
NUsers == 2         \* rows of the users table while requests mutate it
PageRows == 3       \* rows of the table the paging requests list
FilterRows == 2     \* rows of the table the filter requests list
DateRows == 2       \* rows of the table the date-filter requests list
FailRows == 2       \* rows of the table the failing requests list
MaxPage == 3        \* largest page number requested
MaxPerPage == 2     \* largest per_page requested
TicksPerDay == 2    \* clock ticks in one calendar day
MaxDay == 32        \* days the clock runs after the first registration
MaxClock == 2       \* ticks the clock runs while mutations are in flight
NWorkers == 2       \* requests the server handles concurrently

----------------------------------------------------------------------------
(* Text helpers. *)

NULL == <<"NULL">>

SEP == <<" ", "|", " ">>

Digits == {"0", "1", "2", "3", "4", "5", "6", "7", "8", "9"}

DigitVal(c) ==
    CASE c = "0" -> 0 [] c = "1" -> 1 [] c = "2" -> 2 [] c = "3" -> 3
      [] c = "4" -> 4 [] c = "5" -> 5 [] c = "6" -> 6 [] c = "7" -> 7
      [] c = "8" -> 8 [] c = "9" -> 9

RECURSIVE Concat(_)
Concat(ss) == IF ss = <<>> THEN <<>> ELSE Head(ss) \o Concat(Tail(ss))

Pow10(n) == IF n = 0 THEN 1 ELSE IF n = 1 THEN 10 ELSE 10 ^ n

\* Index of the first occurrence of sub in s, 0 when there is none (str.find + 1).
Find(s, sub) ==
    LET hits == {i \in 1..(Len(s) - Len(sub) + 1) : SubSeq(s, i, i + Len(sub) - 1) = sub}
    IN  IF hits = {} THEN 0 ELSE CHOOSE i \in hits : \A j \in hits : i <= j

\* str.split(sep): cut at each occurrence of sep, scanning left to right.
RECURSIVE Split(_, _)
Split(s, sep) ==
    LET i == Find(s, sep)
    IN  IF i = 0 THEN <<s>>
        ELSE <<SubSeq(s, 1, i - 1)>> \o Split(SubSeq(s, i + Len(sep), Len(s)), sep)

\* str.strip() as float() applies it: leading and trailing white space removed.
RECURSIVE LStrip(_)
LStrip(s) == IF s # <<>> /\ Head(s) = " " THEN LStrip(Tail(s)) ELSE s

RECURSIVE RStrip(_)
RStrip(s) == IF s # <<>> /\ s[Len(s)] = " " THEN RStrip(SubSeq(s, 1, Len(s) - 1)) ELSE s

Strip(s) == RStrip(LStrip(s))

AllDigits(s) == \A i \in 1..Len(s) : s[i] \in Digits

RECURSIVE IntVal(_)
IntVal(s) == IF s = <<>> THEN 0 ELSE IntVal(SubSeq(s, 1, Len(s) - 1)) * 10 + DigitVal(s[Len(s)])

\* The text of a float literal without sign and surrounding space.
Unsigned(s) ==
    LET t == Strip(s)
    IN  IF t # <<>> /\ Head(t) \in {"-", "+"} THEN Tail(t) ELSE t

IntPart(s) ==
    LET b == Unsigned(s)
        d == Find(b, <<".">>)
    IN  IF d = 0 THEN b ELSE SubSeq(b, 1, d - 1)

FracPart(s) ==
    LET b == Unsigned(s)
        d == Find(b, <<".">>)
    IN  IF d = 0 THEN <<>> ELSE SubSeq(b, d + 1, Len(b))

\* float(s) succeeds: optional sign, then digits with at most one point and
\* at least one digit (decimal literals; the model's alphabet has no exponent,
\* underscore, "inf" or "nan").
IsFloat(s) ==
    /\ AllDigits(IntPart(s))
    /\ AllDigits(FracPart(s))
    /\ Len(IntPart(s)) + Len(FracPart(s)) > 0

\* A Python float or None: num / 10^scale, trailing zeros of the fraction dropped.
None == [null |-> TRUE, num |-> 0, scale |-> 0]

RECURSIVE Normal(_, _)
Normal(n, k) ==
    IF k > 0 /\ n % 10 = 0 THEN Normal(n \div 10, k - 1)
    ELSE [null |-> FALSE, num |-> n, scale |-> k]

\* float(s) for a text on which it succeeds.
PyFloat(s) ==
    LET t == Strip(s)
        sign == IF t # <<>> /\ Head(t) = "-" THEN -1 ELSE 1
        k == Len(FracPart(s))
    IN  Normal(sign * (IntVal(IntPart(s)) * Pow10(k) + IntVal(FracPart(s))), k)

----------------------------------------------------------------------------
(* parse_location_data *)

\* float(part) raises ValueError (the guard "if part" of the code left out)
CoordRaisesUnguarded(part) == ~IsFloat(part)

\* float(part) if part else None raises ValueError
CoordRaises(part) == part # <<>> /\ ~IsFloat(part)

CoordValue(part) == IF part # <<>> THEN PyFloat(part) ELSE None

\* the fallback keeping only the text before the first delimiter as address
PlainLocationFirstPart(location_string) ==
    [address |-> Head(Split(location_string, SEP)), latitude |-> None, longitude |-> None,
     map_link |-> NULL, is_auto_detected |-> FALSE, full_string |-> location_string]

PlainLocation(location_string) ==
    [address |-> location_string, latitude |-> None, longitude |-> None,
     map_link |-> NULL, is_auto_detected |-> FALSE, full_string |-> location_string]

\* the record of an auto-detected location whose map_link is all the text
\* after the third delimiter, as split(' | ', 3) would leave it
AutoLocationRestLink(parts, location_string) ==
    [address |-> parts[1],
     latitude |-> CoordValue(parts[2]),
     longitude |-> CoordValue(parts[3]),
     map_link |-> Concat([k \in 1..(2 * (Len(parts) - 3) - 1) |->
                            IF k % 2 = 1 THEN parts[3 + (k + 1) \div 2] ELSE SEP]),
     is_auto_detected |-> TRUE,
     full_string |-> location_string]

AutoLocation(parts, location_string) ==
    [address |-> parts[1],
     latitude |-> CoordValue(parts[2]),
     longitude |-> CoordValue(parts[3]),
     map_link |-> parts[4],
     is_auto_detected |-> TRUE,
     full_string |-> location_string]

parse_location_data(location_string) ==
    IF location_string = NULL \/ location_string = <<>>
    THEN [address |-> <<>>, latitude |-> None, longitude |-> None,
          map_link |-> NULL, is_auto_detected |-> FALSE, full_string |-> NULL]
    ELSE IF Find(location_string, SEP) = 0 THEN PlainLocation(location_string)
    ELSE LET parts == Split(location_string, SEP)
         IN  IF Len(parts) >= 4 /\ ~CoordRaises(parts[2]) /\ ~CoordRaises(parts[3])
             THEN AutoLocation(parts, location_string)
             ELSE PlainLocation(location_string)

\* The raw location strings the model hands to the parser: up to MaxTokens
\* tokens, each the delimiter or one character.
Tokens == {SEP, <<"a">>, <<"1">>, <<"-">>, <<".">>, <<" ">>}

TokenSeqs(max) == UNION {[1..n -> Tokens] : n \in 0..max}

RawLocations(max) == {NULL} \cup {Concat(ts) : ts \in TokenSeqs(max)}

NotParsed == [address |-> <<"?">>, latitude |-> None, longitude |-> None,
              map_link |-> NULL, is_auto_detected |-> FALSE, full_string |-> NULL]

InitLoc ==
    /\ loc \in RawLocations(MaxTokens)
    /\ parsed = NotParsed
    /\ users = <<>>
    /\ now = 0
    /\ session = TRUE
    /\ entitled = TRUE
    /\ resp = <<>>
    /\ walk = <<>>
    /\ reqs = <<>>

ParseLocation ==
    /\ parsed = NotParsed
    /\ parsed' = parse_location_data(loc)
    /\ UNCHANGED <<loc, users, now, session, entitled, resp, walk, reqs>>

NextLoc == ParseLocation

SpecLoc == InitLoc /\ [][NextLoc]_vars

----------------------------------------------------------------------------
(* The users table and the SQL the handlers send. *)

\* updated_at IS NULL
NoTime == -1

IdChar(i) ==
    CASE i = 1 -> "1" [] i = 2 -> "2" [] i = 3 -> "3" [] i = 4 -> "4" [] i = 5 -> "5"
      [] i = 6 -> "6" [] i = 7 -> "7" [] i = 8 -> "8" [] OTHER -> "9"

\* Distinct e-mail addresses and phone numbers for the rows of a listing.
EmailOf(i) == <<"e", IdChar(i)>>

PhoneOf(i) == <<"0", IdChar(i)>>

Row(i, name, location, status, created) ==
    [id |-> i, full_name |-> name, phone |-> PhoneOf(i), email |-> EmailOf(i),
     location |-> location, status |-> status, password |-> <<"#">>,
     created_at |-> created, updated_at |-> NoTime]

\* SQL's three-valued logic: "T", "F" and "U" (NULL).
Not3(a) == CASE a = "T" -> "F" [] a = "F" -> "T" [] OTHER -> "U"

And3(a, b) ==
    IF a = "F" \/ b = "F" THEN "F" ELSE IF a = "T" /\ b = "T" THEN "T" ELSE "U"

Or3(a, b) ==
    IF a = "T" \/ b = "T" THEN "T" ELSE IF a = "F" /\ b = "F" THEN "F" ELSE "U"

Bool3(b) == IF b THEN "T" ELSE "F"

\* lower() on the letters of the model's alphabet
Lower(c) == CASE c = "A" -> "a" [] c = "B" -> "b" [] OTHER -> c

\* s LIKE p (ci = FALSE) or s ILIKE p (ci = TRUE) for non-null s: '%' matches
\* any run of characters, '_' any one character.
RECURSIVE LikeMatch(_, _, _)
LikeMatch(s, p, ci) ==
    IF p = <<>> THEN s = <<>>
    ELSE IF Head(p) = "%"
         THEN LikeMatch(s, Tail(p), ci) \/ (s # <<>> /\ LikeMatch(Tail(s), p, ci))
    ELSE IF s = <<>> THEN FALSE
    ELSE IF Head(p) = "_" THEN LikeMatch(Tail(s), Tail(p), ci)
    ELSE /\ IF ci THEN Lower(Head(s)) = Lower(Head(p)) ELSE Head(s) = Head(p)
         /\ LikeMatch(Tail(s), Tail(p), ci)

Like3(s, p, ci) == IF s = NULL THEN "U" ELSE Bool3(LikeMatch(s, p, ci))

\* '% | % | % | %'
AutoPattern == <<"%">> \o SEP \o <<"%">> \o SEP \o <<"%">> \o SEP \o <<"%">>

\* search_term = f"%{search}%"
SearchTerm(search) == <<"%">> \o search \o <<"%">>

\* DATE(ts), and the timestamp a date is compared as (its midnight)
DateOf(ts) == ts \div TicksPerDay

Midnight(d) == d * TicksPerDay

\* The conditions get_users appends, each evaluated on row u at clock t.
SearchCondition(u, search) ==
    Or3(Like3(u.full_name, SearchTerm(search), TRUE),
        Or3(Like3(u.phone, SearchTerm(search), TRUE),
            Or3(Like3(u.email, SearchTerm(search), TRUE),
                Like3(u.location, SearchTerm(search), TRUE))))

LocationCondition(u, location_filter) ==
    CASE location_filter = "auto" -> Like3(u.location, AutoPattern, FALSE)
      [] location_filter = "manual" -> Not3(Like3(u.location, AutoPattern, FALSE))
      [] OTHER -> "T"

StatusCondition(u, status_filter) ==
    IF status_filter # "all" THEN Bool3(u.status = status_filter) ELSE "T"

DateCondition(u, date_filter, t) ==
    CASE date_filter = "today" -> Bool3(DateOf(u.created_at) = DateOf(t))
      [] date_filter = "week" -> Bool3(u.created_at >= Midnight(DateOf(t) - 7))
      [] date_filter = "month" -> Bool3(u.created_at >= Midnight(DateOf(t) - 30))
      [] OTHER -> "T"

\* the conditions joined with OR instead of AND
WhereClauseAny(u, req, t) ==
    IF req.search = <<>> /\ req.location_filter \notin {"auto", "manual"}
       /\ req.status_filter = "all" /\ req.date_filter \notin {"today", "week", "month"}
    THEN "T"
    ELSE Or3(IF req.search # <<>> THEN SearchCondition(u, req.search) ELSE "F",
             Or3(IF req.location_filter \in {"auto", "manual"}
                 THEN LocationCondition(u, req.location_filter) ELSE "F",
                 Or3(IF req.status_filter # "all"
                     THEN StatusCondition(u, req.status_filter) ELSE "F",
                     IF req.date_filter \in {"today", "week", "month"}
                     THEN DateCondition(u, req.date_filter, t) ELSE "F")))

\* where_clause = " AND ".join(conditions) if conditions else "1=1"
WhereClause(u, req, t) ==
    And3(IF req.search # <<>> THEN SearchCondition(u, req.search) ELSE "T",
         And3(LocationCondition(u, req.location_filter),
              And3(StatusCondition(u, req.status_filter),
                   IF req.date_filter # "all"
                   THEN DateCondition(u, req.date_filter, t) ELSE "T")))

\* The ids of the rows a WHERE keeps: those on which it is true.
Selected(table, req, t) == {i \in DOMAIN table : WhereClause(table[i], req, t) = "T"}

\* the count taken without the WHERE clause
CountQueryUnfiltered(table, req, t) == Cardinality(DOMAIN table)

\* SELECT COUNT(*) as total FROM users WHERE {where_clause}
CountQuery(table, req, t) == Cardinality(Selected(table, req, t))

\* ORDER BY created_at DESC: every order of the selected rows with
\* non-increasing created_at; SQL leaves the order of equal keys open.
OrderByCreatedDesc(table, ids) ==
    {o \in [1..Cardinality(ids) -> ids] :
        /\ \A i, j \in DOMAIN o : i # j => o[i] # o[j]
        /\ \A i, j \in DOMAIN o : i < j => table[o[i]].created_at >= table[o[j]].created_at}

Min(a, b) == IF a <= b THEN a ELSE b

\* LIMIT n alone, the OFFSET dropped
LimitNoOffset(o, per_page, offset) == SubSeq(o, 1, Min(per_page, Len(o)))

\* LIMIT %s OFFSET %s applied to an ordered result
LimitOffset(o, per_page, offset) == SubSeq(o, offset + 1, Min(offset + per_page, Len(o)))

\* COALESCE(updated_at, created_at) as last_updated
LastUpdated(u) == IF u.updated_at # NoTime THEN u.updated_at ELSE u.created_at

\* One row of the page as the loop at lines 425-430 leaves it.
EnrichedRow(u) ==
    [id |-> u.id, status |-> u.status, created_at |-> u.created_at,
     last_updated |-> LastUpdated(u),
     parsed_location |-> parse_location_data(u.location),
     is_auto_detected |-> parse_location_data(u.location).is_auto_detected]

\* the loop skipping a row that raises instead of failing the request
EnrichAllSkipping(table, o, fault) ==
    IF fault = "enrich" /\ o # <<>>
    THEN [raised |-> FALSE, rows |-> [k \in 1..(Len(o) - 1) |-> EnrichedRow(table[o[k + 1]])]]
    ELSE [raised |-> FALSE, rows |-> [k \in 1..Len(o) |-> EnrichedRow(table[o[k]])]]

\* for user in users: ...   (raises when enriching a row fails)
EnrichAll(table, o, fault) ==
    IF fault = "enrich" /\ o # <<>>
    THEN [raised |-> TRUE, rows |-> <<>>]
    ELSE [raised |-> FALSE, rows |-> [k \in 1..Len(o) |-> EnrichedRow(table[o[k]])]]

\* total // per_page: the last, partial page not counted
TotalPagesFloor(total, per_page) == total \div per_page

\* (total + per_page - 1) // per_page, for per_page # 0
TotalPages(total, per_page) == (total + per_page - 1) \div per_page

NoReq == [page |-> 1, per_page |-> 1, search |-> <<>>, location_filter |-> "all",
          status_filter |-> "all", date_filter |-> "all"]

NoResp == [status |-> "none", req |-> NoReq, fault |-> "none", at |-> 0,
           keys |-> {}, success |-> FALSE, error |-> "", users |-> <<>>,
           page |-> 0, per_page |-> 0, total |-> 0, total_pages |-> 0,
           executed |-> <<>>]

\* redirect(url_for('admin_login')) of admin_login_required
Redirect(req, t) == [NoResp EXCEPT !.status = "redirect", !.req = req, !.at = t]

\* except Exception as e: return jsonify({'success': False, 'error': str(e)})
ErrorResponse(req, fault, t, error, executed) ==
    [NoResp EXCEPT !.status = "done", !.req = req, !.fault = fault, !.at = t,
                   !.keys = {"success", "error"}, !.error = error,
                   !.executed = executed]

\* offset = (page - 1) * per_page
Offset(req) == (req.page - 1) * req.per_page

\* The page query is refused: LIMIT and OFFSET must not be negative.
PageQueryRaises(req) == req.per_page < 0 \/ Offset(req) < 0

\* The row sequences the page query may answer with (ids, in order).
PageQuery(table, req, t) ==
    IF PageQueryRaises(req) THEN {<<>>}
    ELSE {LimitOffset(o, req.per_page, Offset(req)) :
            o \in OrderByCreatedDesc(table, Selected(table, req, t))}

\* The try block of get_users for request req, with the environment failing
\* at step fault ("none": nothing fails) and the page query answering page_rows.
GetUsersResponse(table, req, fault, t, page_rows) ==
    LET total == CountQuery(table, req, t)
        enriched == EnrichAll(table, page_rows, fault)
    IN  IF fault = "connect"
        THEN ErrorResponse(req, fault, t, "connection", <<"connect">>)
        ELSE IF fault = "count"
        THEN ErrorResponse(req, fault, t, "query", <<"connect", "count">>)
        ELSE IF fault = "page" \/ PageQueryRaises(req)
        THEN ErrorResponse(req, fault, t, "query", <<"connect", "count", "page">>)
        ELSE IF enriched.raised
        THEN ErrorResponse(req, fault, t, "enrich", <<"connect", "count", "page", "enrich">>)
        ELSE IF req.per_page = 0
        THEN ErrorResponse(req, fault, t, "division by zero",
                           <<"connect", "count", "page", "enrich", "jsonify">>)
        ELSE [NoResp EXCEPT !.status = "done", !.req = req, !.fault = fault, !.at = t,
                            !.keys = {"success", "users", "pagination"},
                            !.success = TRUE, !.users = enriched.rows,
                            !.page = req.page, !.per_page = req.per_page,
                            !.total = total,
                            !.total_pages = TotalPages(total, req.per_page),
                            !.executed = <<"connect", "count", "page", "enrich", "jsonify">>]

\* The criteria of a listing: a request without its page number.
Listing(req) == [req EXCEPT !.page = 1]

RowIds(rows) == [k \in 1..Len(rows) |-> rows[k].id]

NoWalk == [listing |-> NoReq, pages |-> <<>>]

\* A client paging through one listing: page 1 starts a walk, the next page
\* of the same listing extends it, any other response ends it.
WalkAfter(w, r) ==
    IF ~r.success THEN NoWalk
    ELSE IF w.pages # <<>> /\ w.listing = Listing(r.req) /\ r.req.page = Len(w.pages) + 1
         THEN [w EXCEPT !.pages = Append(w.pages, RowIds(r.users))]
    ELSE IF r.req.page = 1
         THEN [listing |-> Listing(r.req), pages |-> <<RowIds(r.users)>>]
    ELSE NoWalk

\* GET /admin/api/users
GetUsers(Requests, Faults) ==
    \E req \in Requests, fault \in Faults :
        \E page_rows \in PageQuery(users, req, now) :
            /\ resp' = IF ~session THEN Redirect(req, now)
                       ELSE GetUsersResponse(users, req, fault, now, page_rows)
            /\ walk' = WalkAfter(walk, resp')
            /\ UNCHANGED <<loc, parsed, users, now, session, entitled, reqs>>

Statuses == {"active", "blocked"}

AllFaults == {"none", "connect", "count", "page", "enrich"}

\* Paging: tables whose rows differ in registration day (so that rows tie on
\* created_at), requests over every page and per_page from 0 up.
TiedTables(n) ==
    {[i \in 1..n |-> Row(i, <<"A">>, <<"a">>, "active", cr[i])] :
        cr \in [1..n -> {0, TicksPerDay}]}

PageRequests ==
    [page : 0..MaxPage, per_page : 0..MaxPerPage, search : {<<>>},
     location_filter : {"all"}, status_filter : {"all", "blocked"},
     date_filter : {"all", "today"}]

\* A listing starts from a table and a clock, with the admin logged in.
InitListing(Tables, Clocks) ==
    /\ loc = NULL
    /\ parsed = NotParsed
    /\ users \in Tables
    /\ now \in Clocks
    /\ session = TRUE
    /\ entitled = TRUE
    /\ resp = NoResp
    /\ walk = NoWalk
    /\ reqs = <<>>

InitPage == InitListing(TiedTables(PageRows), {TicksPerDay})

NextPage == GetUsers(PageRequests, {"none"})

SpecPage == InitPage /\ [][NextPage]_vars

\* Failures: tables of the same kind, unfiltered requests, the environment failing at
\* any one step of the handler.
FaultRequests ==
    [page : 0..MaxPage, per_page : 0..MaxPerPage, search : {<<>>},
     location_filter : {"all"}, status_filter : {"all"}, date_filter : {"all"}]

InitFail == InitListing(TiedTables(FailRows), {TicksPerDay})

NextFail == GetUsers(FaultRequests, AllFaults)

SpecFail == InitFail /\ [][NextFail]_vars

\* Filters: tables whose rows differ in name, location and status, one
\* request per behaviour over every combination of the four filters.
ShapedLocation == <<"b">> \o SEP \o <<"1">> \o SEP \o <<"1">> \o SEP \o <<"m">>

FilterTables(n) ==
    {[i \in 1..n |-> Row(i, nm[i], lc[i], st[i], i)] :
        nm \in [1..n -> {<<"A">>, <<"b">>}],
        lc \in [1..n -> {NULL, <<>>, <<"a">>, ShapedLocation}],
        st \in [1..n -> Statuses]}

FilterRequests ==
    [page : {1}, per_page : {FilterRows}, search : {<<>>, <<"a">>, <<"_">>},
     location_filter : {"all", "auto", "manual"},
     status_filter : {"all", "active", "blocked"},
     date_filter : {"all", "today", "week", "month"}]

InitFilter == InitListing(FilterTables(FilterRows), {FilterRows})

NextFilter == resp = NoResp /\ GetUsers(FilterRequests, {"none"})

SpecFilter == InitFilter /\ [][NextFilter]_vars

\* Dates: tables whose rows were registered at any tick of two consecutive
\* days, read at any later tick of the following MaxDay days.
DateTables(n) ==
    {[i \in 1..n |-> Row(i, <<"A">>, <<"a">>, "active", cr[i])] :
        cr \in [1..n -> 0..(2 * TicksPerDay - 1)]}

DateRequests ==
    [page : {1}, per_page : {DateRows}, search : {<<>>},
     location_filter : {"all"}, status_filter : {"all"},
     date_filter : {"all", "today", "week", "month"}]

InitDate ==
    /\ InitListing(DateTables(DateRows), 0..((MaxDay + 2) * TicksPerDay - 1))
    /\ \A i \in DOMAIN users : users[i].created_at <= now

NextDate == resp = NoResp /\ GetUsers(DateRequests, {"none"})

SpecDate == InitDate /\ [][NextDate]_vars

----------------------------------------------------------------------------
(* update_user: PUT /admin/api/users/<user_id> *)

\* A key the JSON payload does not hold.
Absent == <<"ABSENT">>

NoData == [full_name |-> Absent, email |-> Absent, phone |-> Absent,
           location |-> Absent, status |-> "absent", password |-> Absent]

\* started: the time the request's transaction began, 0 outside a transaction
Idle == [route |-> "", pc |-> "idle", user_id |-> 0, data |-> NoData, started |-> 0,
         result |-> ""]

Workers == 1..NWorkers

\* generate_password_hash(password)
PasswordHash(password) == <<"#">> \o password

\* SELECT id FROM users WHERE email = %s AND id != %s  finds a row
EmailTaken(table, email, user_id) ==
    \E j \in DOMAIN table : table[j].email = email /\ j # user_id

\* SELECT id FROM users WHERE phone = %s AND id != %s  finds a row
PhoneTaken(table, phone, user_id) ==
    \E j \in DOMAIN table : table[j].phone = phone /\ j # user_id

\* update_fields, in the order the handler appends them
UpdateFields(data) ==
    (IF data.full_name # Absent THEN <<"full_name">> ELSE <<>>)
    \o (IF data.email # Absent THEN <<"email">> ELSE <<>>)
    \o (IF data.phone # Absent THEN <<"phone">> ELSE <<>>)
    \o (IF data.location # Absent THEN <<"location">> ELSE <<>>)
    \o (IF data.status # "absent" THEN <<"status">> ELSE <<>>)
    \o (IF data.password # Absent /\ data.password # <<>> THEN <<"password">> ELSE <<>>)
    \o <<"updated_at">>

\* the UPDATE leaving updated_at as it was
UpdatedRowStale(u, data, t) ==
    [u EXCEPT
        !.full_name = IF data.full_name # Absent THEN data.full_name ELSE @,
        !.email = IF data.email # Absent THEN data.email ELSE @,
        !.phone = IF data.phone # Absent THEN data.phone ELSE @,
        !.location = IF data.location # Absent THEN data.location ELSE @,
        !.status = IF data.status # "absent" THEN data.status ELSE @,
        !.password = IF data.password # Absent /\ data.password # <<>>
                     THEN PasswordHash(data.password) ELSE @]

\* UPDATE users SET {update_fields} on one row, CURRENT_TIMESTAMP being t
UpdatedRow(u, data, t) ==
    [u EXCEPT
        !.full_name = IF data.full_name # Absent THEN data.full_name ELSE @,
        !.email = IF data.email # Absent THEN data.email ELSE @,
        !.phone = IF data.phone # Absent THEN data.phone ELSE @,
        !.location = IF data.location # Absent THEN data.location ELSE @,
        !.status = IF data.status # "absent" THEN data.status ELSE @,
        !.password = IF data.password # Absent /\ data.password # <<>>
                     THEN PasswordHash(data.password) ELSE @,
        !.updated_at = t]

\* The statement the handler sends next, once the checks before it passed.
AfterExistsCheck(data) ==
    IF data.email # Absent THEN "email"
    ELSE IF data.phone # Absent THEN "phone" ELSE "update"

AfterEmailCheck(data) == IF data.phone # Absent THEN "phone" ELSE "update"

Finish(w, result) ==
    reqs' = [reqs EXCEPT ![w].pc = "done", ![w].started = 0, ![w].result = result]

\* The request arrives and the handler runs SELECT id FROM users WHERE id = %s.
UpdateUserBegin(w, Payloads) ==
    \E user_id \in 1..(NUsers + 1), data \in Payloads :
        /\ reqs[w].pc \in {"idle", "done"}
        /\ reqs' = [reqs EXCEPT ![w] =
                      IF ~session
                      THEN [route |-> "update_user", pc |-> "done", user_id |-> user_id,
                            data |-> data, started |-> 0, result |-> "redirect"]
                      ELSE IF user_id \notin DOMAIN users
                      THEN [route |-> "update_user", pc |-> "done", user_id |-> user_id,
                            data |-> data, started |-> 0, result |-> "User not found"]
                      ELSE [route |-> "update_user", pc |-> AfterExistsCheck(data),
                            user_id |-> user_id, data |-> data, started |-> now,
                            result |-> ""]]
        /\ UNCHANGED <<loc, parsed, users, now, session, entitled, resp, walk>>

\* if 'email' in data: the e-mail check against the other rows
UpdateUserCheckEmail(w) ==
    /\ reqs[w].pc = "email"
    /\ IF EmailTaken(users, reqs[w].data.email, reqs[w].user_id)
       THEN Finish(w, "Email already registered to another user")
       ELSE reqs' = [reqs EXCEPT ![w].pc = AfterEmailCheck(reqs[w].data)]
    /\ UNCHANGED <<loc, parsed, users, now, session, entitled, resp, walk>>

\* if 'phone' in data: the phone check against the other rows
UpdateUserCheckPhone(w) ==
    /\ reqs[w].pc = "phone"
    /\ IF PhoneTaken(users, reqs[w].data.phone, reqs[w].user_id)
       THEN Finish(w, "Phone number already registered to another user")
       ELSE reqs' = [reqs EXCEPT ![w].pc = "update"]
    /\ UNCHANGED <<loc, parsed, users, now, session, entitled, resp, walk>>

\* The UPDATE and conn.commit(), or 'No fields to update'.  CURRENT_TIMESTAMP
\* is the time the transaction began, which is the time of its first
\* statement: the connection is not in autocommit mode.
UpdateUserWrite(w) ==
    /\ reqs[w].pc = "update"
    /\ IF UpdateFields(reqs[w].data) # <<>>
       THEN /\ users' = [i \in DOMAIN users |->
                            IF i = reqs[w].user_id
                            THEN UpdatedRow(users[i], reqs[w].data, reqs[w].started)
                            ELSE users[i]]
            /\ Finish(w, "User updated successfully")
       ELSE /\ users' = users
            /\ Finish(w, "No fields to update")
    /\ UNCHANGED <<loc, parsed, now, session, entitled, resp, walk>>

\* The database clock advances.
Tick ==
    /\ now < MaxClock
    /\ now' = now + 1
    /\ UNCHANGED <<loc, parsed, users, session, entitled, resp, walk, reqs>>

\* Payloads that set the e-mail address or the phone number to the one user 1
\* holds or to one nobody holds, and the empty payload.
ContactPayloads ==
    {NoData}
    \cup {[NoData EXCEPT !.email = e] : e \in {EmailOf(1), EmailOf(NUsers + 1)}}
    \cup {[NoData EXCEPT !.phone = ph] : ph \in {PhoneOf(1), PhoneOf(NUsers + 1)}}

Init ==
    /\ loc = NULL
    /\ parsed = NotParsed
    /\ users = [i \in 1..NUsers |-> Row(i, <<"A">>, <<"a">>, "active", 0)]
    /\ now = 1
    /\ session = TRUE
    /\ entitled = TRUE
    /\ resp = NoResp
    /\ walk = NoWalk
    /\ reqs = [w \in Workers |-> Idle]

Next ==
    \/ \E w \in Workers : UpdateUserBegin(w, ContactPayloads)
    \/ \E w \in Workers : UpdateUserCheckEmail(w)
    \/ \E w \in Workers : UpdateUserCheckPhone(w)
    \/ \E w \in Workers : UpdateUserWrite(w)
    \/ Tick

Spec == Init /\ [][Next]_vars

----------------------------------------------------------------------------
(* update_user_status: PUT /admin/api/users/<user_id>/status *)

\* 'User activated successfully' or 'User blocked successfully'
StatusMessage(new_status) ==
    IF new_status = "active" THEN "User activated successfully"
    ELSE "User blocked successfully"

\* UPDATE users SET status = %s, updated_at = CURRENT_TIMESTAMP WHERE id = %s
StatusUpdated(table, user_id, new_status, t) ==
    [i \in DOMAIN table |->
        IF i = user_id THEN [table[i] EXCEPT !.status = new_status, !.updated_at = t]
        ELSE table[i]]

\* The whole handler: the status check, the one UPDATE and the commit.  The
\* UPDATE is the first statement of its transaction, so CURRENT_TIMESTAMP is
\* the time of the statement.
UpdateUserStatus(w, Payloads) ==
    \E user_id \in 1..(NUsers + 1), data \in Payloads :
        LET new_status == data.status
            request == [route |-> "update_user_status", pc |-> "done",
                        user_id |-> user_id, data |-> data, started |-> 0,
                        result |-> ""]
        IN  /\ reqs[w].pc \in {"idle", "done"}
            /\ IF ~session
               THEN /\ reqs' = [reqs EXCEPT ![w] = [request EXCEPT !.result = "redirect"]]
                    /\ users' = users
               ELSE IF new_status \notin {"active", "blocked"}
               THEN /\ reqs' = [reqs EXCEPT ![w] =
                                  [request EXCEPT !.result = "Invalid status"]]
                    /\ users' = users
               ELSE IF user_id \notin DOMAIN users
               THEN /\ reqs' = [reqs EXCEPT ![w] =
                                  [request EXCEPT !.result = "User not found"]]
                    /\ users' = users
               ELSE /\ reqs' = [reqs EXCEPT ![w] =
                                  [request EXCEPT !.result = StatusMessage(new_status)]]
                    /\ users' = StatusUpdated(users, user_id, new_status, now)
            /\ UNCHANGED <<loc, parsed, now, session, entitled, resp, walk>>

\* Payloads of update_user_status: a valid status, another value, no status.
StatusPayloads ==
    {[NoData EXCEPT !.status = s] : s \in {"active", "blocked", "pending", "absent"}}

\* Payloads of update_user: none of the updatable fields (no key at all, or
\* only an empty password), a status, valid or not, an e-mail address and a
\* phone number another user holds.
MutatePayloads ==
    {NoData, [NoData EXCEPT !.password = <<>>],
     [NoData EXCEPT !.status = "blocked"], [NoData EXCEPT !.status = "pending"],
     [NoData EXCEPT !.email = EmailOf(1)], [NoData EXCEPT !.phone = PhoneOf(1)]}

\* update_user and update_user_status requests handled one after the other.
NextMutate ==
    \/ UpdateUserBegin(1, MutatePayloads)
    \/ UpdateUserCheckEmail(1)
    \/ UpdateUserCheckPhone(1)
    \/ UpdateUserWrite(1)
    \/ UpdateUserStatus(1, StatusPayloads)
    \/ Tick

SpecMutate == Init /\ [][NextMutate]_vars

----------------------------------------------------------------------------
(* admin_login, admin_logout and the admin_login_required gate *)

ADMIN_CREDENTIALS == [username |-> "admin", password |-> "admin123"]

\* the comparison accepting a form of which one field is right
CredentialsMatchEither(form) ==
    form.username = ADMIN_CREDENTIALS.username \/ form.password = ADMIN_CREDENTIALS.password

\* username == ADMIN_CREDENTIALS['username'] and password == ADMIN_CREDENTIALS['password']
CredentialsMatch(form) ==
    form.username = ADMIN_CREDENTIALS.username /\ form.password = ADMIN_CREDENTIALS.password

SessionRequest(route, result) ==
    [route |-> route, pc |-> "done", user_id |-> 0, data |-> NoData, started |-> 0,
     result |-> result]

\* GET or POST /admin/login.  entitled records what the form was, apart from
\* what the handler makes of it.
AdminLogin(w, Forms) ==
    \E form \in Forms :
        /\ reqs[w].pc \in {"idle", "done"}
        /\ IF form.method = "POST" /\ CredentialsMatch(form)
           THEN /\ session' = TRUE
                /\ reqs' = [reqs EXCEPT ![w] = SessionRequest("admin_login", "Login successful!")]
           ELSE IF form.method = "POST"
           THEN /\ session' = session
                /\ reqs' = [reqs EXCEPT ![w] =
                              SessionRequest("admin_login", "Invalid username or password")]
           ELSE /\ session' = session
                /\ reqs' = [reqs EXCEPT ![w] = SessionRequest("admin_login", "login.html")]
        /\ entitled' = IF form = [method |-> "POST", username |-> "admin",
                                  password |-> "admin123"]
                       THEN TRUE ELSE entitled
        /\ UNCHANGED <<loc, parsed, users, now, resp, walk>>

\* GET /admin/logout: session.clear()
AdminLogout(w) ==
    /\ reqs[w].pc \in {"idle", "done"}
    /\ session' = FALSE
    /\ entitled' = FALSE
    /\ reqs' = [reqs EXCEPT ![w] = SessionRequest("admin_logout", "Logged out successfully")]
    /\ UNCHANGED <<loc, parsed, users, now, resp, walk>>

LoginForms ==
    [method : {"GET", "POST"}, username : {"admin", "guest"},
     password : {"admin123", "guess"}]

\* A new session: nobody is logged in.
InitSession ==
    /\ loc = NULL
    /\ parsed = NotParsed
    /\ users = [i \in 1..NUsers |-> Row(i, <<"A">>, <<"a">>, "active", 0)]
    /\ now = 1
    /\ session = FALSE
    /\ entitled = FALSE
    /\ resp = NoResp
    /\ walk = NoWalk
    /\ reqs = [w \in Workers |-> Idle]

\* One session: logins, logouts, listings and status changes in any order.
NextSession ==
    \/ AdminLogin(1, LoginForms)
    \/ AdminLogout(1)
    \/ GetUsers({[NoReq EXCEPT !.per_page = NUsers]}, {"none"})
    \/ UpdateUserStatus(1, StatusPayloads)

SpecSession == InitSession /\ [][NextSession]_vars

----------------------------------------------------------------------------
(* Claims about parse_location_data, checked under SpecLoc. *)

Parts == Split(loc, SEP)

IsText(s) == s # NULL /\ s # <<>>

FourSegments == IsText(loc) /\ Len(Parts) >= 4

NullFields(p) ==
    /\ p.latitude = None
    /\ p.longitude = None
    /\ p.map_link = NULL
    /\ p.is_auto_detected = FALSE

----------------------------------------------------------------------------
(* Claims about the paging of get_users, checked under SpecPage. *)

RECURSIVE SumLen(_)
SumLen(ps) == IF ps = <<>> THEN 0 ELSE Len(Head(ps)) + SumLen(Tail(ps))

\* The client has fetched pages 1..total_pages of the listing of resp.
WalkComplete ==
    /\ resp.success
    /\ walk.pages # <<>>
    /\ Len(walk.pages) = resp.total_pages

\* C3: with the table and the criteria fixed, the rows returned over pages
\* 1..total_pages add up to the reported total.
C3_PagesSumToTotal == WalkComplete => SumLen(walk.pages) = resp.total

\* C3 witness: a complete walk of at least two pages whose last page is
\* partial.
C3_Witness ==
    /\ WalkComplete
    /\ resp.total_pages >= 2
    /\ Len(walk.pages[Len(walk.pages)]) < resp.per_page

\* The rows of a response are ordered by created_at descending, ties by id
\* ascending.
OrderedWithTieBreak(rows) ==
    \A i, j \in 1..Len(rows) :
        i < j => \/ rows[i].created_at > rows[j].created_at
                 \/ (rows[i].created_at = rows[j].created_at /\ rows[i].id < rows[j].id)

\* C4 (as stated): a page is ordered by created_at descending with ties broken
\* by id ascending, and pages 1..total_pages together hold every matching
\* record exactly once.
C4_DeterministicOrder ==
    /\ resp.success => OrderedWithTieBreak(resp.users)
    /\ WalkComplete =>
          \A i \in Selected(users, resp.req, resp.at) :
              Cardinality({k \in 1..Len(Concat(walk.pages)) : Concat(walk.pages)[k] = i}) = 1

Max(a, b) == IF a >= b THEN a ELSE b

\* C10: a page beyond total_pages, for a positive per_page, is an empty row
\* sequence with total the number of records matching the criteria.
C10_PageBeyondLast ==
    (resp.success /\ resp.req.per_page > 0 /\ resp.req.page > resp.total_pages) =>
        /\ resp.users = <<>>
        /\ resp.total = Cardinality(Selected(users, resp.req, resp.at))

\* C10 witness: a successful response for a page beyond the last one of a
\* listing that matches records.
C10_Witness ==
    /\ resp.success
    /\ resp.req.page > resp.total_pages
    /\ resp.total > 0
    /\ resp.users = <<>>

----------------------------------------------------------------------------
(* Claims about the failures of get_users, checked under SpecFail. *)

NoDuplicates(q) == \A i, j \in 1..Len(q) : i # j => q[i] # q[j]

\* C9: a response is either a success with the complete page of enriched rows
\* and the total, or a failure with neither; a failing step never gives a
\* success, and no step runs twice.
C9_AllOrNothing ==
    resp.status = "done" =>
        /\ resp.success =>
              /\ resp.keys = {"success", "users", "pagination"}
              /\ resp.total = Cardinality(Selected(users, resp.req, resp.at))
              /\ Len(resp.users) =
                    Min(resp.per_page,
                        Max(0, resp.total - (resp.page - 1) * resp.per_page))
              /\ \A k \in 1..Len(resp.users) :
                    resp.users[k] = EnrichedRow(users[resp.users[k].id])
              /\ resp.fault = "none" \/ (resp.fault = "enrich" /\ resp.users = <<>>)
        /\ ~resp.success =>
              /\ resp.keys = {"success", "error"}
              /\ resp.users = <<>>
              /\ resp.total = 0 /\ resp.total_pages = 0
        /\ NoDuplicates(resp.executed)

\* C9 witness: the enrichment of a row failed after both queries succeeded,
\* and the response is a failure.
C9_Witness ==
    /\ resp.status = "done"
    /\ resp.fault = "enrich"
    /\ resp.executed = <<"connect", "count", "page", "enrich">>
    /\ ~resp.success

----------------------------------------------------------------------------
(* Claims about the filters of get_users, checked under SpecFilter. *)

ReturnedIds == {resp.users[k].id : k \in 1..Len(resp.users)}

OnlyFilter(req, field) ==
    /\ field # "search" => req.search = <<>>
    /\ field # "location" => req.location_filter = "all"
    /\ field # "status" => req.status_filter = "all"
    /\ field # "date" => req.date_filter = "all"

\* C5 (as stated): the records location_filter=manual selects are exactly the
\* records of the table that location_filter=auto does not select, a record
\* with an empty or NULL location included.
C5_ManualIsComplementOfAuto ==
    (resp.success /\ OnlyFilter(resp.req, "location")
                  /\ resp.req.location_filter = "manual") =>
        ReturnedIds = DOMAIN users
                        \ Selected(users, [resp.req EXCEPT !.location_filter = "auto"], resp.at)

ToLower(s) == [k \in 1..Len(s) |-> Lower(s[k])]

\* text occurs in field as a literal substring, whatever the case
ContainsText(field, text) == field # NULL /\ Find(ToLower(field), ToLower(text)) > 0

\* C6 (as stated): with a non-empty search, a record matches iff one of
\* full_name, phone, email, location contains the search text as a literal
\* case-insensitive substring, also when the text holds '%' or '_'.
C6_LiteralSubstringSearch ==
    (resp.success /\ OnlyFilter(resp.req, "search") /\ resp.req.search # <<>>) =>
        ReturnedIds = {i \in DOMAIN users :
                          \/ ContainsText(users[i].full_name, resp.req.search)
                          \/ ContainsText(users[i].phone, resp.req.search)
                          \/ ContainsText(users[i].email, resp.req.search)
                          \/ ContainsText(users[i].location, resp.req.search)}

----------------------------------------------------------------------------
(* Claim about the date filter of get_users, checked under SpecDate. *)

\* The records registered on one of the n calendar days ending with the day
\* of the request.
RegisteredInLastDays(n) ==
    {i \in DOMAIN users :
        /\ DateOf(users[i].created_at) <= DateOf(resp.at)
        /\ DateOf(users[i].created_at) >= DateOf(resp.at) - (n - 1)}

\* C7 (as stated): 'today' selects the records registered on the current day
\* D, 'week' those of the 7 days D-6..D, 'month' those of the 30 days D-29..D,
\* 'all' every record.
C7_CalendarDayWindows ==
    (resp.success /\ OnlyFilter(resp.req, "date")) =>
        ReturnedIds =
            CASE resp.req.date_filter = "today" -> RegisteredInLastDays(1)
              [] resp.req.date_filter = "week" -> RegisteredInLastDays(7)
              [] resp.req.date_filter = "month" -> RegisteredInLastDays(30)
              [] OTHER -> DOMAIN users

----------------------------------------------------------------------------
(* Claim about update_user, checked under Spec. *)

\* C2 (as stated): whatever the interleaving of update_user requests, no two
\* distinct user records hold the same e-mail address or the same phone number.
C2_UniqueEmailAndPhone ==
    \A i, j \in DOMAIN users :
        i # j => (users[i].email # users[j].email /\ users[i].phone # users[j].phone)

----------------------------------------------------------------------------
(* Claim about the page arithmetic of get_users, checked under SpecPage. *)

\* C11: total_pages is the ceiling of total / per_page, and the page holds the
\* rows that follow the first (page - 1) * per_page rows of the ordered result
\* (3 matching records with per_page 2: total_pages 2, page 2 holds 1 row).
C11_CeilingAndOffset ==
    resp.success =>
        /\ resp.total_pages * resp.per_page >= resp.total
        /\ (resp.total_pages - 1) * resp.per_page < resp.total
        /\ \E o \in OrderByCreatedDesc(users, Selected(users, resp.req, resp.at)) :
              /\ Len(o) = resp.total
              /\ \A k \in 1..Len(resp.users) :
                    resp.users[k].id = o[(resp.page - 1) * resp.per_page + k]
              /\ Len(resp.users) =
                    Min(resp.per_page, Max(0, resp.total - (resp.page - 1) * resp.per_page))

\* C11 witness: the second of two pages, holding the one row left over.
C11_Witness ==
    /\ resp.success
    /\ resp.total > resp.per_page
    /\ resp.total_pages = 2
    /\ resp.page = 2
    /\ Len(resp.users) = resp.total - resp.per_page
    /\ Len(resp.users) < resp.per_page

----------------------------------------------------------------------------
(* Claim about combined filters of get_users, checked under SpecFilter. *)

\* The rows one criterion keeps on its own; an inactive criterion keeps all.
MatchedBySearch(req) ==
    IF req.search = <<>> THEN DOMAIN users
    ELSE {i \in DOMAIN users : SearchCondition(users[i], req.search) = "T"}

MatchedByLocation(req) ==
    IF req.location_filter = "all" THEN DOMAIN users
    ELSE {i \in DOMAIN users : LocationCondition(users[i], req.location_filter) = "T"}

MatchedByStatus(req) ==
    IF req.status_filter = "all" THEN DOMAIN users
    ELSE {i \in DOMAIN users : users[i].status = req.status_filter}

MatchedByDate(req, t) ==
    IF req.date_filter = "all" THEN DOMAIN users
    ELSE {i \in DOMAIN users : DateCondition(users[i], req.date_filter, t) = "T"}

ActiveFilters(req) ==
    {f \in {"search", "location", "status", "date"} : ~OnlyFilter(req, f)}

\* C12: the rows a combination of search, location, status and date criteria
\* returns are exactly the rows every active criterion keeps on its own, an
\* inactive criterion removes nothing, status_filter=blocked returns only
\* blocked records, and status_filter=all with no other criterion returns the
\* records of every status.
C12_FiltersIntersect ==
    resp.success =>
        /\ ReturnedIds = MatchedBySearch(resp.req) \cap MatchedByLocation(resp.req)
                         \cap MatchedByStatus(resp.req) \cap MatchedByDate(resp.req, resp.at)
        /\ resp.total = Cardinality(ReturnedIds)
        /\ resp.req.status_filter = "blocked" =>
              \A k \in 1..Len(resp.users) : resp.users[k].status = "blocked"
        /\ (\A f \in {"search", "location", "status", "date"} : OnlyFilter(resp.req, f)) =>
              ReturnedIds = DOMAIN users

\* C12 witness: two criteria are active, each keeps a row the other drops, and
\* a blocked row is returned.
C12_Witness ==
    /\ resp.success
    /\ resp.req.search # <<>>
    /\ resp.req.status_filter = "blocked"
    /\ resp.req.location_filter = "all"
    /\ resp.req.date_filter = "all"
    /\ ReturnedIds # {}
    /\ MatchedBySearch(resp.req) # ReturnedIds
    /\ MatchedByStatus(resp.req) # DOMAIN users

----------------------------------------------------------------------------
(* Claim about the segments parse_location_data reads, checked under SpecLoc. *)

\* The first four segments of loc joined with the delimiter again.
FirstFourSegments ==
    Concat(<<Parts[1], SEP, Parts[2], SEP, Parts[3], SEP, Parts[4]>>)

SameLocationFields(p, q) ==
    /\ p.address = q.address
    /\ p.latitude = q.latitude
    /\ p.longitude = q.longitude
    /\ p.map_link = q.map_link
    /\ p.is_auto_detected = q.is_auto_detected

\* C13: with at least four segments of which the second and third are numeric,
\* address is the first segment, latitude and longitude are the numbers of the
\* second and third, map_link is exactly the fourth, and what follows the
\* fourth segment changes no location field.
C13_FirstFourSegmentsOnly ==
    (parsed # NotParsed /\ FourSegments /\ IsFloat(Parts[2]) /\ IsFloat(Parts[3])) =>
        /\ parsed.address = Parts[1]
        /\ parsed.latitude = PyFloat(Parts[2]) /\ parsed.latitude # None
        /\ parsed.longitude = PyFloat(Parts[3]) /\ parsed.longitude # None
        /\ parsed.map_link = Parts[4]
        /\ parsed.is_auto_detected
        /\ SameLocationFields(parsed, parse_location_data(FirstFourSegments))

\* C13 witness: a parsed location of five segments with numeric coordinates.
C13_Witness ==
    /\ parsed # NotParsed
    /\ IsText(loc)
    /\ Len(Parts) >= 5
    /\ IsFloat(Parts[2])
    /\ IsFloat(Parts[3])
    /\ parsed.is_auto_detected

----------------------------------------------------------------------------
(* Claims about update_user and update_user_status, checked under SpecMutate. *)

\* C14 (as stated): in every reachable state of the users table each record's
\* status is 'active' or 'blocked', whatever status the payloads of update_user
\* and update_user_status requests carry.
C14_StatusIsActiveOrBlocked ==
    \A i \in DOMAIN users : users[i].status \in {"active", "blocked"}

SuccessResults ==
    {"User updated successfully", "User activated successfully",
     "User blocked successfully"}

\* Worker w's update_user or update_user_status request ends in this step.
Finishes(w) ==
    /\ reqs'[w] # reqs[w]
    /\ reqs'[w].pc = "done"
    /\ reqs'[w].route \in {"update_user", "update_user_status"}

\* The time at which the request that worker w ends in this step began.
RequestBegan(w) == IF reqs[w].pc \in {"idle", "done"} THEN now ELSE reqs[w].started

\* C15: a request that ends with success leaves its record with an updated_at
\* that is the current time of the request (the database's CURRENT_TIMESTAMP,
\* not before the request began and not after now), with its created_at and id
\* as they were, and every other record as it was; a request that ends with an
\* error (user not found, uniqueness conflict, invalid status), and a step that
\* ends no request, change no record.
C15_MutationFrame ==
    [][/\ \A w \in Workers :
            /\ (Finishes(w) /\ reqs'[w].result \in SuccessResults) =>
                  LET id == reqs'[w].user_id
                  IN  /\ id \in DOMAIN users
                      /\ DOMAIN users' = DOMAIN users
                      /\ users'[id].updated_at >= RequestBegan(w)
                      /\ users'[id].updated_at <= now
                      /\ users'[id].created_at = users[id].created_at
                      /\ users'[id].id = users[id].id
                      /\ \A j \in DOMAIN users \ {id} : users'[j] = users[j]
            /\ (Finishes(w) /\ reqs'[w].result \notin SuccessResults) => users' = users
       /\ (\A w \in Workers : ~Finishes(w) /\ reqs'[w].pc # "done") => users' = users
      ]_vars

\* C15 witness: after the clock has advanced, a request has ended with success
\* on a record that now carries the current time, next to a record never
\* updated.
C15_Witness ==
    /\ now > 1
    /\ reqs[1].pc = "done"
    /\ reqs[1].result \in SuccessResults
    /\ reqs[1].user_id \in DOMAIN users
    /\ users[reqs[1].user_id].updated_at = now
    /\ users[reqs[1].user_id].created_at = 0
    /\ \E j \in DOMAIN users : users[j].updated_at = NoTime

\* A payload with none of the fields update_user can set.
NoUpdatableField(data) ==
    /\ data.full_name = Absent
    /\ data.email = Absent
    /\ data.phone = Absent
    /\ data.location = Absent
    /\ data.status = "absent"
    /\ data.password \in {Absent, <<>>}

\* C17 (as stated): update_user on an existing user with a payload holding
\* none of the updatable fields answers 'No fields to update' and leaves the
\* table, the record's updated_at included, as it was.
C17_NoFieldsToUpdate ==
    [][\A w \in Workers :
          (/\ reqs[w].route = "update_user"
           /\ reqs[w].pc = "update"
           /\ reqs'[w].pc = "done"
           /\ reqs[w].user_id \in DOMAIN users
           /\ NoUpdatableField(reqs[w].data)) =>
              /\ reqs'[w].result = "No fields to update"
              /\ users' = users
      ]_vars

----------------------------------------------------------------------------
(* Claim about the login gate, checked under SpecSession. *)

GatedRoutes == {"update_user", "update_user_status"}

\* C16: in one session, get_users and update_user_status run only while a
\* login with the correct username and password has happened and no logout
\* since; otherwise the request is redirected to the login page, no statement
\* is executed and the users table is unchanged; a failed login attempt leaves
\* the session's logged-in state as it was.
C16_LoginGate ==
    [][/\ resp' # resp =>
            IF entitled
            THEN resp'.status = "done"
            ELSE resp'.status = "redirect" /\ resp'.executed = <<>> /\ users' = users
       /\ \A w \in Workers :
            (reqs'[w] # reqs[w] /\ reqs'[w].route \in GatedRoutes) =>
                IF entitled
                THEN reqs'[w].result # "redirect"
                ELSE reqs'[w].result = "redirect" /\ users' = users
       /\ \A w \in Workers :
            (reqs'[w] # reqs[w] /\ reqs'[w].result = "Invalid username or password") =>
                session' = session
      ]_vars

\* C16 witness: a listing was served while logged in, and after a logout a
\* status change was redirected.
C16_Witness ==
    /\ resp.status = "done"
    /\ resp.success
    /\ ~session
    /\ ~entitled
    /\ reqs[1].route = "update_user_status"
    /\ reqs[1].result = "redirect"
    /\ \A i \in DOMAIN users : users[i].updated_at = NoTime

====
